---- MODULE Spec2Model ----
(***************************************************************************)
(* Real Intent -> Pipedrive converter (src/app.py).                        *)
(*                                                                         *)
(* The Streamlit script main() is run once per browser session and per     *)
(* interaction.  A run reads the uploaded CSV into a DataFrame, checks     *)
(* that every key of COLUMN_MAPPINGS is a column, reports the missing      *)
(* keys, or selects and renames the mapped columns, shows the converted    *)
(* table and offers it as a CSV download.                                  *)
(*                                                                         *)
(* A DataFrame is [columns, rows]: the column labels in order and the      *)
(* rows, each a sequence of cells in column order.  An optional value      *)
(* (a local of main that may not be assigned yet) is <<>> or <<v>>.        *)
(***************************************************************************)
EXTENDS Integers, Sequences, FiniteSets, TLC

\* ------------------------------------------------------------------ bounds
\* Sessions served by the Streamlit server (each runs main() on its own).
NumSessions == 2
\* Most mapping keys a generated upload lacks.
MaxMissing == 2
\* Most columns outside the mapping a generated upload carries.
MaxExtra == 1
\* Most data rows of a generated upload.
MaxRows == 2

Sessions == 1..NumSessions

\* ------------------------------------------------------------ option values
None == <<>>
Some(v) == <<v>>
IsSome(o) == o # <<>>
Get(o) == o[1]

\* --------------------------------------------------------------- sequences
Range(seq) == {seq[i] : i \in 1..Len(seq)}
Reverse(seq) == [i \in 1..Len(seq) |-> seq[Len(seq) + 1 - i]]
IsIn(x, seq) == \E i \in 1..Len(seq) : seq[i] = x
\* list.index / Index.get_loc: the first position of x (x is in seq).
IndexOf(x, seq) == CHOOSE i \in 1..Len(seq) : seq[i] = x /\ \A j \in 1..(i - 1) : seq[j] # x

RECURSIVE Join(_, _)
\* sep.join(seq)
Join(seq, sep) ==
  IF seq = <<>> THEN ""
  ELSE IF Len(seq) = 1 THEN seq[1]
  ELSE seq[1] \o sep \o Join(Tail(seq), sep)

\* ----------------------------------------------------------- the mapping
\* The COLUMN_MAPPINGS dict literal; a Python dict keeps insertion order.
COLUMN_MAPPINGS_LITERAL ==
  << [key |-> "first_name",       label |-> "First name"],
     [key |-> "last_name",        label |-> "Last name"],
     [key |-> "email_1",          label |-> "Email"],
     [key |-> "email_2",          label |-> "Email 2"],
     [key |-> "email_3",          label |-> "Email 3"],
     [key |-> "phone_1",          label |-> "Phone"],
     [key |-> "phone_2",          label |-> "Phone 2"],
     [key |-> "address",          label |-> "Address"],
     [key |-> "city",             label |-> "City"],
     [key |-> "state",            label |-> "State"],
     [key |-> "zip_code",         label |-> "Postal code"],
     [key |-> "household_income", label |-> "Household income"] >>

\* list(m.keys()) and iteration over the dict: the keys in insertion order.
keys(m) == [i \in 1..Len(m) |-> m[i].key]
\* m[k] for a key k of m.
Lookup(m, k) == m[IndexOf(k, keys(m))].label

\* ------------------------------------------------------------ DataFrames
\* A missing value (numpy.nan), as pandas holds an empty CSV field.
NaN == "nan"
\* Field texts read_csv takes for a missing value (a part of its default
\* na_values).
NaValues == {"", "NaN", "nan", "NA", "N/A", "NULL", "null"}

\* read_csv's parse of one field.
ParseCell(text) == IF text \in NaValues THEN NaN ELSE text
\* to_csv's text of one cell (na_rep = "").
FormatCell(v) == IF v = NaN THEN "" ELSE v

\* read_csv's column labels: the i-th label of the header row, a repeated
\* label n (seen k times before) becoming n.k.
MangleDupeCols(header) ==
  [i \in 1..Len(header) |->
     LET k == Cardinality({j \in 1..(i - 1) : header[j] = header[i]})
     IN IF k = 0 THEN header[i] ELSE header[i] \o "." \o ToString(k)]

\* Mutant of read_csv: an unreadable file is taken for an empty table
\* (try: pd.read_csv(...) except Exception: pd.DataFrame()).
read_csv_lenient(f) ==
  [ok |-> TRUE, exc |-> "",
   df |-> Some([columns |-> MangleDupeCols(f.header),
                rows |-> [i \in 1..Len(f.rows) |->
                            [j \in 1..Len(f.header) |-> ParseCell(f.rows[i][j])]]])]

\* pd.read_csv(uploaded_file): the DataFrame, or the exception it raises.
\* An uploaded file is [kind, header, rows]: "csv" text with a header row
\* and data rows of as many fields, bytes that are no UTF-8 text
\* ("undecodable"), or a file with no line at all ("empty").
read_csv(f) ==
  IF f.kind = "undecodable" THEN [ok |-> FALSE, exc |-> "UnicodeDecodeError", df |-> None]
  ELSE IF f.kind = "empty" THEN [ok |-> FALSE, exc |-> "EmptyDataError", df |-> None]
  ELSE [ok |-> TRUE, exc |-> "",
        df |-> Some([columns |-> MangleDupeCols(f.header),
                     rows |-> [i \in 1..Len(f.rows) |->
                                 [j \in 1..Len(f.header) |-> ParseCell(f.rows[i][j])]]])]

\* str.strip().lower() of a column label, on the labels of the uploads.
Normalise(label) ==
  CASE label = "First_Name" -> "first_name"
    [] label = " zip_code" -> "zip_code"
    [] OTHER -> label

\* Mutant of MissingColumns: the roles of the mapping and of the frame are
\* swapped, [col for col in df.columns if col not in COLUMN_MAPPINGS].
MissingColumnsSwapped(m, d) ==
  SelectSeq(d.columns, LAMBDA col : ~IsIn(col, keys(m)))

\* Mutant of MissingColumns: labels are stripped and lower-cased before the
\* comparison.
MissingColumnsFolded(m, d) ==
  SelectSeq(keys(m), LAMBDA col : \A j \in 1..Len(d.columns) : Normalise(d.columns[j]) # col)

\* [col for col in COLUMN_MAPPINGS if col not in df.columns]
MissingColumns(m, d) ==
  SelectSeq(keys(m), LAMBDA col : ~IsIn(col, d.columns))

\* Mutant of SelectColumns: the selected columns keep the order they have in
\* the frame, df[[c for c in df.columns if c in cols]].
SelectColumnsInFrameOrder(d, cols) ==
  LET at == SelectSeq([j \in 1..Len(d.columns) |-> j], LAMBDA j : IsIn(d.columns[j], cols))
  IN [columns |-> [n \in 1..Len(at) |-> d.columns[at[n]]],
      rows |-> [i \in 1..Len(d.rows) |-> [n \in 1..Len(at) |-> d.rows[i][at[n]]]]]

\* Mutant of SelectColumns: rows without any value are dropped,
\* df[cols].dropna(how="all").
SelectColumnsDropna(d, cols) ==
  [columns |-> cols,
   rows |-> LET all == [i \in 1..Len(d.rows) |->
                          [j \in 1..Len(cols) |-> d.rows[i][IndexOf(cols[j], d.columns)]]]
            IN SelectSeq(all, LAMBDA r : \E j \in 1..Len(r) : r[j] # NaN)]

\* Mutant of SelectColumns: no selection, the frame is only renamed.
SelectColumnsAll(d, cols) == d

\* df[cols]: the columns named by cols, in the order of cols (every name of
\* cols is a column of d).
SelectColumns(d, cols) ==
  [columns |-> cols,
   rows |-> [i \in 1..Len(d.rows) |->
               [j \in 1..Len(cols) |-> d.rows[i][IndexOf(cols[j], d.columns)]]]]

\* d.rename(columns=m): a label that is a key of m becomes m[label], any
\* other label stays.
Rename(d, m) ==
  [columns |-> [j \in 1..Len(d.columns) |->
                  IF IsIn(d.columns[j], keys(m)) THEN Lookup(m, d.columns[j])
                  ELSE d.columns[j]],
   rows |-> d.rows]

\* d.to_csv(index=False): the header line, then one line per row, each line
\* the sequence of its fields.
to_csv(d) ==
  <<d.columns>> \o [i \in 1..Len(d.rows) |->
                     [j \in 1..Len(d.columns) |-> FormatCell(d.rows[i][j])]]

\* The st.error text of main.
ErrorMessage(missing) ==
  "The uploaded file does not contain the required columns: "
    \o Join(missing, ", ") \o "."

\* ------------------------------------------------------------ the uploads
\* Column labels outside the mapping that generated uploads carry: a key in
\* another letter case, a key behind a blank, an unrelated Real Intent
\* column, and a key a second time.
ExtraNames == {"First_Name", " zip_code", "insight", "first_name"}
\* Row contents: 0 is a row of empty fields, 1 a row of filled fields.
RowKinds == {0, 1}

\* The text of the field of a row of kind k in the column tagged tag.
CellText(k, tag) == IF k = 0 THEN "" ELSE tag \o "=" \o ToString(k)

\* The upload whose header holds the mapping's keys but those of dropped,
\* then the labels of extra, the whole reversed when rev; one data row per
\* element of kinds.
GenFile(dropped, extra, rev, kinds) ==
  LET kept == SelectSeq(keys(COLUMN_MAPPINGS_LITERAL), LAMBDA k : k \notin dropped)
      cols0 == [j \in 1..Len(kept) |-> [name |-> kept[j], tag |-> kept[j]]]
                 \o [j \in 1..Len(extra) |->
                       [name |-> extra[j], tag |-> "x" \o ToString(j) \o ":" \o extra[j]]]
      cols == IF rev THEN Reverse(cols0) ELSE cols0
  IN [kind |-> "csv",
      header |-> [j \in 1..Len(cols) |-> cols[j].name],
      rows |-> [i \in 1..Len(kinds) |->
                  [j \in 1..Len(cols) |-> CellText(kinds[i], cols[j].tag)]]]

Undecodable == [kind |-> "undecodable", header |-> <<>>, rows |-> <<>>]
EmptyFile == [kind |-> "empty", header |-> <<>>, rows |-> <<>>]

KeySet == Range(keys(COLUMN_MAPPINGS_LITERAL))
DropSets == {D \in SUBSET KeySet : Cardinality(D) <= MaxMissing}
ExtraSeqs == UNION {[1..n -> ExtraNames] : n \in 0..MaxExtra}
RowSeqs == UNION {[1..n -> RowKinds] : n \in 0..MaxRows}

\* The uploads of the one-session specification.
Files ==
  {GenFile(D, E, rev, R) : D \in DropSets, E \in ExtraSeqs, rev \in BOOLEAN, R \in RowSeqs}
    \cup {Undecodable, EmptyFile}

\* The uploads of the many-session specification: every column order, with
\* and without a missing key, with and without a column outside the mapping.
ServerFiles ==
  {GenFile(D, E, rev, <<1, 0>>) :
     D \in {{}, {"zip_code"}}, E \in {<<>>, <<"insight">>}, rev \in BOOLEAN}
    \cup {Undecodable}

\* ------------------------------------------------------------------ state
VARIABLES
  COLUMN_MAPPINGS,   \* the module-level dict, shared by every run
  pc,                \* pc[s]: where the run of main() of session s stands
  uploaded_file,     \* the locals of main(), per session
  df,
  missing_columns,
  df_converted,
  csv_data,
  ui,                \* ui[s]: the elements the run has rendered, in order
  preview,           \* preview[s]: the table st.dataframe shows
  download           \* download[s]: what st.download_button offers

locals == <<uploaded_file, df, missing_columns, df_converted, csv_data>>
page == <<ui, preview, download>>
vars == <<COLUMN_MAPPINGS, pc, uploaded_file, df, missing_columns, df_converted,
          csv_data, ui, preview, download>>

Element(kind, text) == [kind |-> kind, text |-> text]
Rendered(s, kind) == \E i \in 1..Len(ui[s]) : ui[s][i].kind = kind

Init ==
  /\ COLUMN_MAPPINGS = COLUMN_MAPPINGS_LITERAL
  /\ pc = [s \in Sessions |-> "start"]
  /\ uploaded_file = [s \in Sessions |-> None]
  /\ df = [s \in Sessions |-> None]
  /\ missing_columns = [s \in Sessions |-> None]
  /\ df_converted = [s \in Sessions |-> None]
  /\ csv_data = [s \in Sessions |-> None]
  /\ ui = [s \in Sessions |-> <<>>]
  /\ preview = [s \in Sessions |-> None]
  /\ download = [s \in Sessions |-> None]

\* ---------------------------------------------------------------- actions
\* main() up to the file uploader: the title and the note are rendered and
\* st.file_uploader returns the upload of uploads the user chose.
Upload(s, uploads) ==
  /\ pc[s] = "start"
  /\ \E f \in uploads :
       /\ uploaded_file' = [uploaded_file EXCEPT ![s] = Some(f)]
       /\ pc' = [pc EXCEPT ![s] = "read"]
  /\ ui' = [ui EXCEPT ![s] = <<Element("title", "Real Intent to Pipedrive Converter"),
                               Element("info", "")>>]
  /\ UNCHANGED <<COLUMN_MAPPINGS, df, missing_columns, df_converted, csv_data,
                 preview, download>>

\* main() with no file chosen: st.file_uploader returns None and the run
\* ends after the title and the note.
NoUpload(s) ==
  /\ pc[s] = "start"
  /\ pc' = [pc EXCEPT ![s] = "done"]
  /\ ui' = [ui EXCEPT ![s] = <<Element("title", "Real Intent to Pipedrive Converter"),
                               Element("info", "")>>]
  /\ UNCHANGED <<COLUMN_MAPPINGS, locals, preview, download>>

\* df = pd.read_csv(uploaded_file); an exception ends the run, Streamlit
\* rendering it.
ReadCsv(s) ==
  /\ pc[s] = "read"
  /\ LET r == read_csv(Get(uploaded_file[s]))
     IN IF r.ok
        THEN /\ df' = [df EXCEPT ![s] = r.df]
             /\ pc' = [pc EXCEPT ![s] = "validate"]
             /\ ui' = ui
        ELSE /\ df' = df
             /\ pc' = [pc EXCEPT ![s] = "done"]
             /\ ui' = [ui EXCEPT ![s] = Append(@, Element("exception", r.exc))]
  /\ UNCHANGED <<COLUMN_MAPPINGS, uploaded_file, missing_columns, df_converted,
                 csv_data, preview, download>>

\* Mutant of Validate: the run returns on a missing key without st.error.
ValidateSilent(s) ==
  /\ pc[s] = "validate"
  /\ LET missing == MissingColumns(COLUMN_MAPPINGS, Get(df[s]))
     IN /\ missing_columns' = [missing_columns EXCEPT ![s] = Some(missing)]
        /\ pc' = [pc EXCEPT ![s] = IF missing # <<>> THEN "done" ELSE "convert"]
  /\ UNCHANGED <<COLUMN_MAPPINGS, uploaded_file, df, df_converted, csv_data,
                 ui, preview, download>>

\* Mutant of Validate: the missing keys are popped from the shared dict
\* (for col in missing_columns: COLUMN_MAPPINGS.pop(col)) after the error.
ValidatePopsMissing(s) ==
  /\ pc[s] = "validate"
  /\ LET missing == MissingColumns(COLUMN_MAPPINGS, Get(df[s]))
     IN /\ missing_columns' = [missing_columns EXCEPT ![s] = Some(missing)]
        /\ COLUMN_MAPPINGS' = SelectSeq(COLUMN_MAPPINGS, LAMBDA e : ~IsIn(e.key, missing))
        /\ IF missing # <<>>
           THEN /\ ui' = [ui EXCEPT ![s] = Append(@, Element("error", ErrorMessage(missing)))]
                /\ pc' = [pc EXCEPT ![s] = "done"]
           ELSE /\ ui' = ui
                /\ pc' = [pc EXCEPT ![s] = "convert"]
  /\ UNCHANGED <<uploaded_file, df, df_converted, csv_data, preview, download>>

\* The missing-columns check: st.error and return when a key is missing.
Validate(s) ==
  /\ pc[s] = "validate"
  /\ LET missing == MissingColumns(COLUMN_MAPPINGS, Get(df[s]))
     IN /\ missing_columns' = [missing_columns EXCEPT ![s] = Some(missing)]
        /\ IF missing # <<>>
           THEN /\ ui' = [ui EXCEPT ![s] = Append(@, Element("error", ErrorMessage(missing)))]
                /\ pc' = [pc EXCEPT ![s] = "done"]
           ELSE /\ ui' = ui
                /\ pc' = [pc EXCEPT ![s] = "convert"]
  /\ UNCHANGED <<COLUMN_MAPPINGS, uploaded_file, df, df_converted, csv_data,
                 preview, download>>

\* df_converted = df[list(COLUMN_MAPPINGS.keys())].rename(columns=COLUMN_MAPPINGS),
\* then the preview.  df[...] raises KeyError on a label that is no column.
Convert(s) ==
  /\ pc[s] = "convert"
  /\ LET d == Get(df[s])
         cols == keys(COLUMN_MAPPINGS)
     IN IF \A j \in 1..Len(cols) : IsIn(cols[j], d.columns)
        THEN LET converted == Rename(SelectColumns(d, cols), COLUMN_MAPPINGS)
             IN /\ df_converted' = [df_converted EXCEPT ![s] = Some(converted)]
                /\ ui' = [ui EXCEPT ![s] = Append(Append(@,
                            Element("write", "Converted DataFrame:")),
                            Element("dataframe", ""))]
                /\ preview' = [preview EXCEPT ![s] = Some(converted)]
                /\ pc' = [pc EXCEPT ![s] = "serialize"]
        ELSE /\ ui' = [ui EXCEPT ![s] = Append(@, Element("exception", "KeyError"))]
             /\ pc' = [pc EXCEPT ![s] = "done"]
             /\ UNCHANGED <<df_converted, preview>>
  /\ UNCHANGED <<COLUMN_MAPPINGS, uploaded_file, df, missing_columns, csv_data, download>>

\* csv_data = df_converted.to_csv(index=False).encode("utf-8"), then the
\* download button.
Serialize(s) ==
  /\ pc[s] = "serialize"
  /\ LET data == to_csv(Get(df_converted[s]))
     IN /\ csv_data' = [csv_data EXCEPT ![s] = Some(data)]
        /\ download' = [download EXCEPT ![s] =
                          Some([data |-> data,
                                file_name |-> "converted_pipedrive_file.csv",
                                mime |-> "text/csv"])]
  /\ ui' = [ui EXCEPT ![s] = Append(@, Element("download_button", "Download converted CSV"))]
  /\ pc' = [pc EXCEPT ![s] = "done"]
  /\ UNCHANGED <<COLUMN_MAPPINGS, uploaded_file, df, missing_columns, df_converted, preview>>

\* Streamlit runs the script anew on an interaction: the page is cleared and
\* the locals of the former run are gone.
Rerun(s) ==
  /\ pc[s] # "start"
  /\ pc' = [pc EXCEPT ![s] = "start"]
  /\ uploaded_file' = [uploaded_file EXCEPT ![s] = None]
  /\ df' = [df EXCEPT ![s] = None]
  /\ missing_columns' = [missing_columns EXCEPT ![s] = None]
  /\ df_converted' = [df_converted EXCEPT ![s] = None]
  /\ csv_data' = [csv_data EXCEPT ![s] = None]
  /\ ui' = [ui EXCEPT ![s] = <<>>]
  /\ preview' = [preview EXCEPT ![s] = None]
  /\ download' = [download EXCEPT ![s] = None]
  /\ UNCHANGED COLUMN_MAPPINGS

\* Every session runs main() on its own; the runs interleave step by step.
Next ==
  \E s \in Sessions :
    \/ Upload(s, ServerFiles)
    \/ NoUpload(s)
    \/ ReadCsv(s)
    \/ Validate(s)
    \/ Convert(s)
    \/ Serialize(s)
    \/ Rerun(s)

Spec == Init /\ [][Next]_vars

\* One session alone, over every generated upload.
NextOne ==
  \/ Upload(1, Files)
  \/ NoUpload(1)
  \/ ReadCsv(1)
  \/ Validate(1)
  \/ Convert(1)
  \/ Serialize(1)
  \/ Rerun(1)

SpecOne == Init /\ [][NextOne]_vars

\* ------------------------------------------------------------------ claims
\* What a run has to show for itself.
Parsed(s) == IsSome(df[s])
Done(s) == pc[s] = "done"
HasAllKeys(s) == KeySet \subseteq Range(Get(df[s]).columns)
ExtraColumns(s) == Range(Get(df[s]).columns) \ KeySet
ShowsError(s) == Rendered(s, "error")
ShowsOutput(s) ==
  \/ Rendered(s, "dataframe") \/ Rendered(s, "write") \/ Rendered(s, "download_button")
  \/ IsSome(df_converted[s]) \/ IsSome(preview[s])
  \/ IsSome(csv_data[s]) \/ IsSome(download[s])

\* The output header the specification gives.
PipedriveHeader ==
  <<"First name", "Last name", "Email", "Email 2", "Email 3", "Phone", "Phone 2",
    "Address", "City", "State", "Postal code", "Household income">>

Orderings(S) ==
  {p \in [1..Cardinality(S) -> S] : \A i, j \in 1..Cardinality(S) : p[i] = p[j] => i = j}

\* C2: a finished run on an input table lacking source keys has failed, and
\* the keys its error names are exactly the mapping keys that are no column
\* of the input.
C2_ErrorNamesExactlyAbsentKeys ==
  \A s \in Sessions :
    (Parsed(s) /\ ~HasAllKeys(s) /\ Done(s)) =>
      LET absent == KeySet \ Range(Get(df[s]).columns)
      IN /\ ShowsError(s) /\ ~ShowsOutput(s)
         /\ IsSome(missing_columns[s])
         /\ Range(Get(missing_columns[s])) = absent
         /\ Len(Get(missing_columns[s])) = Cardinality(absent)
         /\ \A i \in 1..Len(ui[s]) :
              ui[s][i].kind = "error" =>
                \E p \in Orderings(absent) :
                  ui[s][i].text =
                    "The uploaded file does not contain the required columns: "
                      \o Join(p, ", ") \o "."

\* C2 witness: a failed run on a table that lacks two keys and holds a
\* column outside the mapping.
C2_Witness ==
  \E s \in Sessions :
    /\ Parsed(s) /\ ~HasAllKeys(s) /\ Done(s) /\ ShowsError(s)
    /\ Cardinality(KeySet \ Range(Get(df[s]).columns)) = 2
    /\ ExtraColumns(s) # {}

\* C3: a run on a parsed upload never shows both an error and an output,
\* and ends with exactly one of them and without an exception.
C3_ErrorXorOutput ==
  \A s \in Sessions :
    Parsed(s) =>
      /\ ~(ShowsError(s) /\ ShowsOutput(s))
      /\ ~Rendered(s, "exception")
      /\ Done(s) =>
           \/ ShowsError(s)
           \/ /\ IsSome(df_converted[s]) /\ IsSome(preview[s]) /\ IsSome(download[s])
              /\ Rendered(s, "dataframe") /\ Rendered(s, "download_button")

\* C3 witness: a run that ended with the error.
C3_Witness ==
  \E s \in Sessions : Parsed(s) /\ Done(s) /\ ShowsError(s) /\ ~ShowsOutput(s)

\* The cell of row i of frame d under the column labelled c.
CellAt(d, i, c) == d.rows[i][IndexOf(c, d.columns)]

\* C4: the output has as many rows as the input, row i of the output holds
\* under every destination label the cell of row i of the input under the
\* source key, and the CSV has one line per input row after its header.
C4_RowsPreserved ==
  \A s \in Sessions :
    IsSome(df_converted[s]) =>
      LET in == Get(df[s])
          out == Get(df_converted[s])
      IN /\ Len(out.rows) = Len(in.rows)
         /\ \A k \in 1..Len(COLUMN_MAPPINGS_LITERAL) :
              LET e == COLUMN_MAPPINGS_LITERAL[k]
              IN /\ IsIn(e.label, out.columns)
                 /\ \A i \in 1..Len(in.rows) :
                      i <= Len(out.rows) => CellAt(out, i, e.label) = CellAt(in, i, e.key)
         /\ IsSome(csv_data[s]) => Len(Get(csv_data[s])) = 1 + Len(in.rows)

\* C4 witness: a finished conversion of a table of two different rows, an
\* empty one first.
C4_Witness ==
  \E s \in Sessions :
    /\ Done(s) /\ IsSome(df_converted[s]) /\ IsSome(csv_data[s])
    /\ Len(Get(df[s]).rows) = 2
    /\ Get(df[s]).rows[1] # Get(df[s]).rows[2]
    /\ \A j \in 1..Len(Get(df[s]).columns) : Get(df[s]).rows[1][j] = NaN

C6_ExtraColumnsRemain ==
  \A s \in Sessions :
    (Parsed(s) /\ IsSome(df_converted[s])) =>
      \A c \in ExtraColumns(s) : IsIn(c, Get(df_converted[s]).columns)

\* C6 witness of the case: a conversion of a table with a column outside
\* the mapping.
C6_Case ==
  \E s \in Sessions : Parsed(s) /\ IsSome(df_converted[s]) /\ ExtraColumns(s) # {}

\* Frames a and b hold the same columns with the same values row by row,
\* whatever the order of their columns.
SameTable(a, b) ==
  /\ Len(a.columns) = Len(b.columns)
  /\ Range(a.columns) = Range(b.columns)
  /\ Len(a.rows) = Len(b.rows)
  /\ \A i \in 1..Len(a.rows) : \A c \in Range(a.columns) : CellAt(a, i, c) = CellAt(b, i, c)

\* The outcome of a finished run: what it computed and what it shows.
Outcome(s) ==
  [missing |-> missing_columns[s], converted |-> df_converted[s], csv |-> csv_data[s],
   ui |-> ui[s], preview |-> preview[s], download |-> download[s]]

\* C7: two finished runs on tables that differ only in the order of their
\* columns have the same outcome: the same missing keys and error, or the
\* same output header, rows and CSV.
C7_ColumnOrderIrrelevant ==
  \A s, t \in Sessions :
    (Parsed(s) /\ Parsed(t) /\ Done(s) /\ Done(t) /\ SameTable(Get(df[s]), Get(df[t]))) =>
      Outcome(s) = Outcome(t)

\* C7 witness: two finished conversions of one table in two column orders.
C7_Witness ==
  \E s, t \in Sessions :
    /\ Parsed(s) /\ Parsed(t) /\ Done(s) /\ Done(t)
    /\ SameTable(Get(df[s]), Get(df[t]))
    /\ Get(df[s]).columns # Get(df[t]).columns
    /\ IsSome(csv_data[s]) /\ IsSome(csv_data[t])

\* C8: COLUMN_MAPPINGS is what the module set it to, and two finished runs
\* on the same upload have the same outcome, whatever ran before or between.
C8_NoSharedState ==
  /\ COLUMN_MAPPINGS = COLUMN_MAPPINGS_LITERAL
  /\ \A s, t \in Sessions :
       (Done(s) /\ Done(t) /\ IsSome(uploaded_file[s])
          /\ uploaded_file[s] = uploaded_file[t]) =>
         Outcome(s) = Outcome(t)

\* C8 witness: two sessions with finished conversions of the same upload.
C8_Witness ==
  \E s, t \in Sessions :
    /\ s # t /\ Done(s) /\ Done(t)
    /\ IsSome(uploaded_file[s]) /\ uploaded_file[s] = uploaded_file[t]
    /\ IsSome(csv_data[s]) /\ IsSome(csv_data[t])

\* C9: a run on an upload that is no CSV table stops at the parse step:
\* no frame, no missing-columns check, no conversion, no CSV, no preview and
\* no download, and it ends with the exception of the parser.
C9_ParseFailureStopsRun ==
  \A s \in Sessions :
    (IsSome(uploaded_file[s]) /\ Get(uploaded_file[s]).kind # "csv") =>
      /\ pc[s] \in {"read", "done"}
      /\ df[s] = None /\ missing_columns[s] = None
      /\ ~ShowsError(s) /\ ~ShowsOutput(s)
      /\ Done(s) => Rendered(s, "exception")

\* C9 witness: a run ended by the parser's exception.
C9_Witness ==
  \E s \in Sessions :
    /\ IsSome(uploaded_file[s]) /\ Get(uploaded_file[s]).kind # "csv"
    /\ Done(s) /\ Rendered(s, "exception")

\* Label c is the source key k but for letter case or surrounding blanks.
VariantOf(c, k) == c # k /\ Normalise(c) = k

\* C10: a finished run on a table that holds a source key only in another
\* letter case or behind a blank reports the key as missing and fails, the
\* table keeping its header as uploaded.
C10_ExactHeaderMatch ==
  \A s \in Sessions :
    (Parsed(s) /\ Done(s)) =>
      \A k \in KeySet :
        (~IsIn(k, Get(df[s]).columns)
           /\ \E c \in Range(Get(df[s]).columns) : VariantOf(c, k)) =>
          /\ IsSome(missing_columns[s]) /\ IsIn(k, Get(missing_columns[s]))
          /\ ShowsError(s) /\ ~ShowsOutput(s)
          /\ \A c \in Range(Get(uploaded_file[s]).header) :
               VariantOf(c, k) => IsIn(c, Get(df[s]).columns)

\* C10 witness: a failed run on a table whose only first-name column is
\* First_Name.
C10_Witness ==
  \E s \in Sessions :
    /\ Parsed(s) /\ Done(s) /\ ShowsError(s)
    /\ IsIn("First_Name", Get(df[s]).columns)
    /\ ~IsIn("first_name", Get(df[s]).columns)
====
